---------------------------- MODULE Spec2Model ----------------------------
(***************************************************************************)
(* Model of the NMEA 0183 position broadcaster (src/code.py).              *)
(*                                                                         *)
(* A Python str is a sequence of one-character strings; ord() is the ASCII *)
(* table Ord.  A float number of degrees is an integer count of            *)
(* 1/DegUnit degree, a float number of seconds is an integer count of      *)
(* milliseconds.                                                           *)
(***************************************************************************)
EXTENDS Integers, Sequences, FiniteSets, TLC

VARIABLES
    cfg,          \* USER CONFIG: LATITUDE, LONGITUDE, START_DATE_DDMMYY, START_TIME_HHMMSS, DE_RE_PIN
    pc,           \* position of the script in the main loop
    clock,        \* time.monotonic(), in milliseconds
    start_time,   \* start_time = time.monotonic() taken before the loop
    now,          \* the loop's reading of the clock
    utc_time,     \* the loop's utc_time string
    gga,          \* the loop's gga sentence
    rmc,          \* the loop's rmc sentence
    de_re_value,  \* de_re.value (FALSE when no pin is configured)
    wire,         \* every sentence handed to uart.write, in order
    events,       \* the current cycle's transmit-enable and write events, time-stamped
    cycles,       \* number of loop iterations started
    call          \* the last call of a core function: its arguments and result

vars == <<cfg, pc, clock, start_time, now, utc_time, gga, rmc, de_re_value,
          wire, events, cycles, call>>

loopvars == <<cfg, pc, clock, start_time, now, utc_time, gga, rmc, de_re_value,
              wire, events, cycles>>

-----------------------------------------------------------------------------
(* Characters and numbers as text *)

Digits == <<"0", "1", "2", "3", "4", "5", "6", "7", "8", "9">>

HexDigits == Digits \o <<"A", "B", "C", "D", "E", "F">>

\* ord(ch) for the characters the program can meet.
Ord ==
    [c \in {"\r", "\n", " ", "$", "*", "+", ",", "-", ".",
            "0", "1", "2", "3", "4", "5", "6", "7", "8", "9",
            "A", "B", "C", "D", "E", "F", "G", "M", "N", "P", "R", "S", "W",
            "a"} |->
        CASE c = "\n" -> 10 [] c = "\r" -> 13 [] c = " " -> 32
          [] c = "$" -> 36 [] c = "*" -> 42 [] c = "+" -> 43
          [] c = "," -> 44 [] c = "-" -> 45 [] c = "." -> 46
          [] c = "0" -> 48 [] c = "1" -> 49 [] c = "2" -> 50
          [] c = "3" -> 51 [] c = "4" -> 52 [] c = "5" -> 53
          [] c = "6" -> 54 [] c = "7" -> 55 [] c = "8" -> 56
          [] c = "9" -> 57
          [] c = "A" -> 65 [] c = "B" -> 66 [] c = "C" -> 67
          [] c = "D" -> 68 [] c = "E" -> 69 [] c = "F" -> 70
          [] c = "G" -> 71 [] c = "M" -> 77 [] c = "N" -> 78
          [] c = "P" -> 80 [] c = "R" -> 82 [] c = "S" -> 83
          [] c = "W" -> 87 [] c = "a" -> 97]

IsDigit(c) == \E d \in 1..10 : Digits[d] = c

DigitVal(c) == (CHOOSE d \in 1..10 : Digits[d] = c) - 1

\* a ^ b on non-negative integers
RECURSIVE Xor(_, _)
Xor(a, b) ==
    IF a = 0 THEN b
    ELSE IF b = 0 THEN a
    ELSE (((a % 2) + (b % 2)) % 2) + (2 * Xor(a \div 2, b \div 2))

\* str(n) for n >= 0
RECURSIVE Dec(_)
Dec(n) == IF n < 10 THEN <<Digits[n + 1]>> ELSE Dec(n \div 10) \o <<Digits[(n % 10) + 1]>>

\* text right-justified, zero-filled to at least width characters
RECURSIVE ZeroFill(_, _)
ZeroFill(s, width) == IF Len(s) >= width THEN s ELSE ZeroFill(<<"0">> \o s, width)

\* f"{n:02d}" and f"{n:03d}" for n >= 0
FmtD(n, width) == ZeroFill(Dec(n), width)

\* uppercase hexadecimal text of n >= 0
RECURSIVE Hex(_)
Hex(n) == IF n < 16 THEN <<HexDigits[n + 1]>> ELSE Hex(n \div 16) \o <<HexDigits[(n % 16) + 1]>>

\* f"{n:02X}"
Fmt02X(n) == ZeroFill(Hex(n), 2)

\* s[a:b] of a Python str
Slice(s, a, b) == SubSeq(s, a + 1, IF b < Len(s) THEN b ELSE Len(s))

\* s.strip() restricted to blanks
RECURSIVE Strip(_)
Strip(s) ==
    IF s = <<>> THEN s
    ELSE IF Head(s) = " " THEN Strip(Tail(s))
    ELSE IF s[Len(s)] = " " THEN Strip(SubSeq(s, 1, Len(s) - 1))
    ELSE s

Unsigned(s) == IF s # <<>> /\ Head(s) \in {"+", "-"} THEN Tail(s) ELSE s

\* int(s) raises ValueError
IntRaises(s) ==
    LET u == Unsigned(Strip(s))
    IN  u = <<>> \/ \E i \in 1..Len(u) : ~IsDigit(u[i])

RECURSIVE DigitsVal(_)
DigitsVal(u) == IF u = <<>> THEN 0 ELSE (10 * DigitsVal(SubSeq(u, 1, Len(u) - 1))) + DigitVal(u[Len(u)])

\* int(s) when it does not raise
IntOf(s) ==
    LET t == Strip(s)
    IN  IF Head(t) = "-" THEN 0 - DigitsVal(Unsigned(t)) ELSE DigitsVal(Unsigned(t))

-----------------------------------------------------------------------------
(* The core functions *)

\* Counts per degree: a position is a whole number of 1e-7 degree.
DegUnit == 10 * 1000 * 1000

\* Milliseconds per second: a clock reading is a whole number of milliseconds.
MsPerSec == 10 * 100

\* x / y rounded to the nearest integer, ties to even (x >= 0, y > 0)
RoundHalfEven(x, y) ==
    LET q == x \div y
        r == x % y
    IN  IF 2 * r < y THEN q
        ELSE IF 2 * r > y THEN q + 1
        ELSE IF q % 2 = 0 THEN q ELSE q + 1

\* f"{minutes:07.4f}", minutes given in 1/DegUnit minute
Fmt074f(minutes) ==
    LET q == RoundHalfEven(minutes, DegUnit \div 10000)
    IN  ZeroFill(Dec(q \div 10000) \o <<".">> \o FmtD(q % 10000, 4), 7)

Abs(x) == IF x < 0 THEN 0 - x ELSE x

\* _to_nmea_latlon with the latitude's {degrees:02d} used for longitudes too
_to_nmea_latlon_lat_width(value, is_lat) ==
    LET hemi    == IF value < 0
                   THEN (IF is_lat THEN "S" ELSE "W")
                   ELSE (IF is_lat THEN "N" ELSE "E")
        abs_val == Abs(value)
        degrees == abs_val \div DegUnit
        minutes == (abs_val - (degrees * DegUnit)) * 60
    IN  <<FmtD(degrees, 2) \o Fmt074f(minutes), hemi>>

_to_nmea_latlon(value, is_lat) ==
    LET hemi    == IF value < 0
                   THEN (IF is_lat THEN "S" ELSE "W")
                   ELSE (IF is_lat THEN "N" ELSE "E")
        abs_val == Abs(value)
        degrees == abs_val \div DegUnit
        minutes == (abs_val - (degrees * DegUnit)) * 60
    IN  IF is_lat
        THEN <<FmtD(degrees, 2) \o Fmt074f(minutes), hemi>>
        ELSE <<FmtD(degrees, 3) \o Fmt074f(minutes), hemi>>

\* csum after the for loop has run over payload, starting from csum.  (The test of
\* csum makes TLC compute the running value at every character, as the loop does,
\* instead of stacking the 70-odd pending ^ of a sentence.)
RECURSIVE XorAll(_, _)
XorAll(csum, payload) ==
    IF payload = <<>> \/ csum < 0 THEN csum
    ELSE XorAll(Xor(csum, Ord[Head(payload)]), Tail(payload))

\* _checksum with its loop starting at the second character
_checksum_skips_first(payload) ==
    Fmt02X(XorAll(0, IF payload = <<>> THEN payload ELSE Tail(payload)))

\* csum after a loop that shifts the running value before each ^
RECURSIVE ShiftXorAll(_, _)
ShiftXorAll(csum, payload) ==
    IF payload = <<>> \/ csum < 0 THEN csum
    ELSE ShiftXorAll(Xor((2 * csum) % 256, Ord[Head(payload)]), Tail(payload))

\* _checksum as a shift-and-xor hash
_checksum_shifted(payload) == Fmt02X(ShiftXorAll(0, payload))

_checksum(payload) == Fmt02X(XorAll(0, payload))

_make_gpgga(utc_hhmmss, lat, lon) ==
    LET lat_r == _to_nmea_latlon(lat, TRUE)
        lon_r == _to_nmea_latlon(lon, FALSE)
        payload ==
            <<"G", "P", "G", "G", "A", ",">> \o utc_hhmmss \o <<".", "0", "0", ",">>
            \o lat_r[1] \o <<",", lat_r[2], ",">> \o lon_r[1] \o <<",", lon_r[2], ",">>
            \o <<"1", ",", "0", "8", ",", "1", ".", "0", ",", "0", ".", "0", ",", "M", ",",
                 "0", ".", "0", ",", "M", ",", ",">>
    IN  <<"$">> \o payload \o <<"*">> \o _checksum(payload) \o <<"\r", "\n">>

\* _make_gprmc with the date field filled from the ticking time
_make_gprmc_time_as_date(utc_hhmmss, date_ddmmyy, lat, lon) ==
    LET lat_r == _to_nmea_latlon(lat, TRUE)
        lon_r == _to_nmea_latlon(lon, FALSE)
        payload ==
            <<"G", "P", "R", "M", "C", ",">> \o utc_hhmmss \o <<".", "0", "0", ",", "A", ",">>
            \o lat_r[1] \o <<",", lat_r[2], ",">> \o lon_r[1] \o <<",", lon_r[2], ",">>
            \o <<"0", ".", "0", ",", "0", ".", "0", ",">>
            \o utc_hhmmss \o <<",", ",", ",", "A">>
    IN  <<"$">> \o payload \o <<"*">> \o _checksum(payload) \o <<"\r", "\n">>

_make_gprmc(utc_hhmmss, date_ddmmyy, lat, lon) ==
    LET lat_r == _to_nmea_latlon(lat, TRUE)
        lon_r == _to_nmea_latlon(lon, FALSE)
        payload ==
            <<"G", "P", "R", "M", "C", ",">> \o utc_hhmmss \o <<".", "0", "0", ",", "A", ",">>
            \o lat_r[1] \o <<",", lat_r[2], ",">> \o lon_r[1] \o <<",", lon_r[2], ",">>
            \o <<"0", ".", "0", ",", "0", ".", "0", ",">>
            \o date_ddmmyy \o <<",", ",", ",", "A">>
    IN  <<"$">> \o payload \o <<"*">> \o _checksum(payload) \o <<"\r", "\n">>

\* _tick_time raises ValueError: one of its three int() calls does
_tick_time_raises(start_hhmmss) ==
    \/ IntRaises(Slice(start_hhmmss, 0, 2))
    \/ IntRaises(Slice(start_hhmmss, 2, 4))
    \/ IntRaises(Slice(start_hhmmss, 4, 6))

\* _tick_time without total %= 24 * 3600
_tick_time_no_wrap(start_hhmmss, seconds_elapsed) ==
    LET hh0   == IntOf(Slice(start_hhmmss, 0, 2))
        mm0   == IntOf(Slice(start_hhmmss, 2, 4))
        ss0   == IntOf(Slice(start_hhmmss, 4, 6))
        total == (hh0 * 3600) + (mm0 * 60) + ss0 + (seconds_elapsed \div MsPerSec)
        hh    == total \div 3600
        mm    == (total % 3600) \div 60
        ss    == total % 60
    IN  FmtD(hh, 2) \o FmtD(mm, 2) \o FmtD(ss, 2)

\* _tick_time when it does not raise; seconds_elapsed >= 0 in milliseconds
_tick_time(start_hhmmss, seconds_elapsed) ==
    LET hh0   == IntOf(Slice(start_hhmmss, 0, 2))
        mm0   == IntOf(Slice(start_hhmmss, 2, 4))
        ss0   == IntOf(Slice(start_hhmmss, 4, 6))
        total == ((hh0 * 3600) + (mm0 * 60) + ss0 + (seconds_elapsed \div MsPerSec)) % (24 * 3600)
        hh    == total \div 3600
        mm    == (total % 3600) \div 60
        ss    == total % 60
    IN  FmtD(hh, 2) \o FmtD(mm, 2) \o FmtD(ss, 2)

-----------------------------------------------------------------------------
(* Configurations, inputs and bounds *)

\* Loop iterations the model follows.
MaxCycles == 2

\* Whole days of elapsed time given to _tick_time.
MaxDays == 2

\* Longest payload given to _checksum.
MaxLen == 3

DayMs == 24 * 3600 * MsPerSec

T(a, b, c, d, e, f) == <<a, b, c, d, e, f>>

\* the repository's START_TIME_HHMMSS, and other well-formed times of day
ValidTimes ==
    {T("1", "2", "0", "0", "0", "0"), T("2", "3", "5", "9", "5", "9"),
     T("0", "0", "0", "0", "0", "0"), T("0", "1", "0", "2", "0", "3")}

\* a letter among the digits; a string too short for the three slices
MalformedTimes == {T("1", "2", "a", "0", "0", "0"), <<"1", "2", "0", "0">>}

\* the repository's START_DATE_DDMMYY and another date
ValidDates == {T("1", "9", "0", "2", "2", "6"), T("3", "1", "1", "2", "9", "9")}

MalformedDates == {<<"1", "9", "0", "2">>}

\* fractions of a degree, in 1/DegUnit degree; none falls on a rounding tie of the
\* minutes' fourth decimal, where binary floating point decides the digit
Fracs == {0, 1, 166667, 5000000, 6106030, 9726570, 9999990, 9999999}

LatValues ==
    {v \in {sg * ((d * DegUnit) + f) : sg \in {-1, 1}, d \in {0, 9, 48, 89, 90}, f \in Fracs} :
        Abs(v) <= 90 * DegUnit}

LonValues ==
    {v \in {sg * ((d * DegUnit) + f) : sg \in {-1, 1}, d \in {0, 9, 99, 123, 179, 180}, f \in Fracs} :
        Abs(v) <= 180 * DegUnit}

\* in-range positions: the repository's LATITUDE and LONGITUDE, the poles and the
\* antimeridian, and each of LatValues and LonValues beside the repository's other
\* coordinate
ValidPositions ==
    {<<489726570, -1236106030>>, <<-899999999, 1799999999>>, <<0, 0>>,
     <<900000000, -1800000000>>, <<-90000001, 99999990>>}
    \cup {<<la, -1236106030>> : la \in LatValues}
    \cup {<<489726570, lo>> : lo \in LonValues}

\* elapsed times within a day, in milliseconds
ElapsedRems == {0, 1, 999, 1000, 1999, 3661000, 86399000, 86399999}

\* the characters of the payloads given to _checksum
PayloadChars == {"A", "B", "G", "1"}

Payloads == UNION {[1..n -> PayloadChars] : n \in 0..MaxLen}

\* |latitude| > 90; |longitude| > 180
InvalidPositions == {<<910000000, 0>>, <<489726570, -2005000000>>}

PositionInRange(lat, lon) == Abs(lat) <= 90 * DegUnit /\ Abs(lon) <= 180 * DegUnit

\* exactly six decimal digits
WellFormed6(s) == Len(s) = 6 /\ \A i \in 1..6 : IsDigit(s[i])

ConfigValid(c) ==
    /\ PositionInRange(c.LATITUDE, c.LONGITUDE)
    /\ WellFormed6(c.START_DATE_DDMMYY)
    /\ WellFormed6(c.START_TIME_HHMMSS)

Config(pos, date, time, pin) ==
    [LATITUDE |-> pos[1], LONGITUDE |-> pos[2], START_DATE_DDMMYY |-> date,
     START_TIME_HHMMSS |-> time, DE_RE_PIN |-> pin]

DefaultConfig ==
    Config(<<489726570, -1236106030>>, T("1", "9", "0", "2", "2", "6"),
           T("1", "2", "0", "0", "0", "0"), FALSE)

\* The configurations the script is started with: valid ones (the repository's, with
\* and without a DE/RE pin, from noon and from the last second of the day, and
\* another position), and ones with a single configuration error.
Configs ==
    {Config(<<489726570, -1236106030>>, T("1", "9", "0", "2", "2", "6"), time, pin) :
        time \in {T("1", "2", "0", "0", "0", "0"), T("2", "3", "5", "9", "5", "9")},
        pin \in BOOLEAN}
    \cup {Config(<<-899999999, 1799999999>>, T("1", "9", "0", "2", "2", "6"),
                 T("1", "2", "0", "0", "0", "0"), TRUE)}
    \cup {Config(pos, T("1", "9", "0", "2", "2", "6"), T("1", "2", "0", "0", "0", "0"), FALSE) :
            pos \in InvalidPositions}
    \cup {Config(<<489726570, -1236106030>>, date, T("1", "2", "0", "0", "0", "0"), FALSE) :
            date \in MalformedDates}
    \cup {Config(<<489726570, -1236106030>>, T("1", "9", "0", "2", "2", "6"), time, FALSE) :
            time \in MalformedTimes}

\* time.monotonic() when the script starts, in milliseconds
BootClocks == {700}

\* time.sleep(0.002), in milliseconds
TurnaroundMs == 2

\* how long time.sleep(0.002) takes: the delay asked for
GuardSleeps == {TurnaroundMs}

\* what a blocking uart.write of one sentence does and how long it takes: about
\* 150 ms at 4800 baud, or longer when the UART stalls
WriteOutcomes == {<<"written", 150>>, <<"written", 900>>, <<"short", 150>>, <<"raised", 150>>}

\* how long time.sleep(1.0 / UPDATE_HZ) takes: the second asked for, or a stall of a
\* day
CycleSleeps == {MsPerSec, DayMs}

NoCall == [fn |-> "none", args |-> <<>>, result |-> <<>>]

-----------------------------------------------------------------------------
(* The script: UART and pin set-up, then the main loop *)

Ev(name, t) == [ev |-> name, t |-> t]

\* The state when the loop is entered: the pin, if any, driven low, and
\* start_time read from the clock.
InitLoop(c) ==
    /\ cfg = c
    /\ pc = "build"
    /\ clock \in BootClocks
    /\ start_time = clock
    /\ now = clock
    /\ utc_time = <<>>
    /\ gga = <<>>
    /\ rmc = <<>>
    /\ de_re_value = FALSE
    /\ wire = <<>>
    /\ events = <<>>
    /\ cycles = 0

Init == (\E c \in Configs : InitLoop(c)) /\ call = NoCall

\* now = time.monotonic(); utc_time = _tick_time(...); gga = ...; rmc = ...
\* A ValueError of _tick_time ends the script.
LoopBuild ==
    /\ pc = "build"
    /\ cycles < MaxCycles
    /\ cycles' = cycles + 1
    /\ events' = <<>>
    /\ now' = clock
    /\ IF _tick_time_raises(cfg.START_TIME_HHMMSS)
       THEN /\ pc' = "crashed"
            /\ UNCHANGED <<utc_time, gga, rmc>>
       ELSE LET t == _tick_time(cfg.START_TIME_HHMMSS, clock - start_time)
            IN  /\ utc_time' = t
                /\ gga' = _make_gpgga(t, cfg.LATITUDE, cfg.LONGITUDE)
                /\ rmc' = _make_gprmc(t, cfg.START_DATE_DDMMYY, cfg.LATITUDE, cfg.LONGITUDE)
                /\ pc' = "assert"
    /\ UNCHANGED <<cfg, clock, start_time, de_re_value, wire, call>>

\* if de_re is not None: de_re.value = True; time.sleep(0.002)
AssertTE ==
    /\ pc = "assert"
    /\ pc' = "write_gga"
    /\ IF cfg.DE_RE_PIN
       THEN \E d \in GuardSleeps :
                /\ de_re_value' = TRUE
                /\ events' = Append(events, Ev("te_on", clock))
                /\ clock' = clock + d
       ELSE UNCHANGED <<de_re_value, events, clock>>
    /\ UNCHANGED <<cfg, start_time, now, utc_time, gga, rmc, wire, cycles, call>>

\* uart.write(sentence.encode("ascii")): the sentence is handed to the UART, and
\* the call returns when the bytes are out ("written"), returns without having
\* sent them all ("short"), or raises, which ends the script.
Write(sentence, next_pc) ==
    /\ wire' = Append(wire, sentence)
    /\ \E o \in WriteOutcomes :
        /\ clock' = clock + o[2]
        /\ events' = events \o <<Ev("write", clock), Ev(o[1], clock + o[2])>>
        /\ pc' = IF o[1] = "raised" THEN "crashed" ELSE next_pc
    /\ UNCHANGED <<cfg, start_time, now, utc_time, gga, rmc, de_re_value, cycles, call>>

\* the first write sending rmc
WriteGga_sends_rmc == pc = "write_gga" /\ Write(rmc, "write_rmc")

WriteGga == pc = "write_gga" /\ Write(gga, "write_rmc")

\* the second write sending an rmc built from a new reading of the clock
WriteRmc_rereads_clock ==
    /\ pc = "write_rmc"
    /\ Write(_make_gprmc(_tick_time(cfg.START_TIME_HHMMSS, clock - start_time),
                         cfg.START_DATE_DDMMYY, cfg.LATITUDE, cfg.LONGITUDE),
             "deassert")

WriteRmc == pc = "write_rmc" /\ Write(rmc, "deassert")

\* the pin driven low before the trailing delay instead of after it
DeassertTE_before_delay ==
    /\ pc = "deassert"
    /\ pc' = "sleep"
    /\ IF cfg.DE_RE_PIN
       THEN \E d \in GuardSleeps :
                /\ clock' = clock + d
                /\ de_re_value' = FALSE
                /\ events' = Append(events, Ev("te_off", clock))
       ELSE UNCHANGED <<de_re_value, events, clock>>
    /\ UNCHANGED <<cfg, start_time, now, utc_time, gga, rmc, wire, cycles, call>>

\* if de_re is not None: time.sleep(0.002); de_re.value = False
DeassertTE ==
    /\ pc = "deassert"
    /\ pc' = "sleep"
    /\ IF cfg.DE_RE_PIN
       THEN \E d \in GuardSleeps :
                /\ clock' = clock + d
                /\ de_re_value' = FALSE
                /\ events' = Append(events, Ev("te_off", clock + d))
       ELSE UNCHANGED <<de_re_value, events, clock>>
    /\ UNCHANGED <<cfg, start_time, now, utc_time, gga, rmc, wire, cycles, call>>

\* time.sleep(1.0 / UPDATE_HZ)
Sleep ==
    /\ pc = "sleep"
    /\ pc' = "build"
    /\ \E d \in CycleSleeps : clock' = clock + d
    /\ UNCHANGED <<cfg, start_time, now, utc_time, gga, rmc, de_re_value, wire, events,
                   cycles, call>>

Next == LoopBuild \/ AssertTE \/ WriteGga \/ WriteRmc \/ DeassertTE \/ Sleep

Spec == Init /\ [][Next]_vars

-----------------------------------------------------------------------------
(* The core functions called on their own: one call per behaviour *)

InitCore == InitLoop(DefaultConfig) /\ call = NoCall

CallTick ==
    /\ call = NoCall
    /\ \E start \in ValidTimes, d \in 0..MaxDays, r \in ElapsedRems :
        LET e == (d * DayMs) + r
        IN  call' = [fn |-> "_tick_time", args |-> <<start, e>>,
                     result |-> _tick_time(start, e)]
    /\ UNCHANGED loopvars

CallLatLon ==
    /\ call = NoCall
    /\ \E is_lat \in BOOLEAN :
        \E v \in (IF is_lat THEN LatValues ELSE LonValues) :
            call' = [fn |-> "_to_nmea_latlon", args |-> <<v, is_lat>>,
                     result |-> _to_nmea_latlon(v, is_lat)]
    /\ UNCHANGED loopvars

\* p with the characters at i and j exchanged
Swap(p, i, j) == [k \in 1..Len(p) |-> IF k = i THEN p[j] ELSE IF k = j THEN p[i] ELSE p[k]]

\* _checksum of a payload, and of the same characters in another order
CallChecksum ==
    /\ call = NoCall
    /\ \E p \in Payloads :
        \E q \in {p} \cup {Swap(p, i, j) : i, j \in 1..Len(p)} :
            call' = [fn |-> "_checksum", args |-> <<p, q>>,
                     result |-> <<_checksum(p), _checksum(q)>>]
    /\ UNCHANGED loopvars

CallGga ==
    /\ call = NoCall
    /\ \E t \in ValidTimes, pos \in ValidPositions :
        call' = [fn |-> "_make_gpgga", args |-> <<t, pos[1], pos[2]>>,
                 result |-> _make_gpgga(t, pos[1], pos[2])]
    /\ UNCHANGED loopvars

CallRmc ==
    /\ call = NoCall
    /\ \E t \in ValidTimes, date \in ValidDates, pos \in ValidPositions :
        call' = [fn |-> "_make_gprmc", args |-> <<t, date, pos[1], pos[2]>>,
                 result |-> _make_gprmc(t, date, pos[1], pos[2])]
    /\ UNCHANGED loopvars

NextCore == CallTick \/ CallLatLon \/ CallChecksum \/ CallGga \/ CallRmc

SpecCore == InitCore /\ [][NextCore]_vars

-----------------------------------------------------------------------------
(* What a receiver reads from a sentence *)

SetMin(S) == CHOOSE x \in S : \A y \in S : x <= y

SetMax(S) == CHOOSE x \in S : \A y \in S : x >= y

\* position of the first c in s, 0 when there is none
IndexOf(s, c) ==
    LET at == {i \in 1..Len(s) : s[i] = c}
    IN  IF at = {} THEN 0 ELSE SetMin(at)

\* the characters strictly between the leading "$" and the "*"
PayloadOf(s) == SubSeq(s, 2, IndexOf(s, "*") - 1)

\* the k-th comma-separated field of a payload, k = 1 for the talker
Field(p, k) ==
    LET in_k == {i \in 1..Len(p) :
                    /\ p[i] # ","
                    /\ Cardinality({j \in 1..i : p[j] = ","}) = k - 1}
    IN  IF in_k = {} THEN <<>> ELSE SubSeq(p, SetMin(in_k), SetMax(in_k))

IsHexDigit(c) == \E d \in 1..16 : HexDigits[d] = c

HexVal(c) == (CHOOSE d \in 1..16 : HexDigits[d] = c) - 1

Bit(x, k) == (x \div (2 ^ k)) % 2

\* XOR of the character codes of p, bit by bit: bit k is set when an odd number of
\* the characters have it set
XorOfChars(p) ==
    LET odd(k) == Cardinality({i \in 1..Len(p) : Bit(Ord[p[i]], k) = 1}) % 2
    IN  odd(0) + (2 * odd(1)) + (4 * odd(2)) + (8 * odd(3)) + (16 * odd(4))
        + (32 * odd(5)) + (64 * odd(6)) + (128 * odd(7))

\* a receiver's checksum verification of a sentence
Validates(s) ==
    LET star == IndexOf(s, "*")
    IN  /\ Len(s) >= 6
        /\ s[1] = "$"
        /\ star > 1
        /\ Len(s) = star + 4
        /\ IsHexDigit(s[star + 1])
        /\ IsHexDigit(s[star + 2])
        /\ (16 * HexVal(s[star + 1])) + HexVal(s[star + 2]) = XorOfChars(PayloadOf(s))
        /\ s[star + 3] = "\r"
        /\ s[star + 4] = "\n"

AllDigits(s) == \A i \in 1..Len(s) : IsDigit(s[i])

\* the number two digits at i and i + 1 of s spell
Num2(s, i) == (10 * DigitVal(s[i])) + DigitVal(s[i + 1])

\* seconds since midnight of a well-formed HHMMSS
SecondsOfDay(s) == (Num2(s, 1) * 3600) + (Num2(s, 3) * 60) + Num2(s, 5)

-----------------------------------------------------------------------------
(* Claims *)

\* C1: every sentence _make_gpgga and _make_gprmc produce for a valid time of day,
\* date and in-range position passes a receiver's verification: the XOR of the
\* characters between "$" and "*" equals the value of the two uppercase hex digits
\* after the "*", and the sentence ends with CR LF.
C1_SentencesValidate ==
    call.fn \in {"_make_gpgga", "_make_gprmc"} => Validates(call.result)

\* a GPRMC sentence was built for the repository's position, and it validates
C1_Witness ==
    /\ call.fn = "_make_gprmc"
    /\ call.args[3] = 489726570
    /\ call.args[4] = -1236106030
    /\ Len(call.result) > 60
    /\ Validates(call.result)

\* C2: _tick_time returns the HHMMSS of (start + floor(elapsed)) mod 86400 seconds,
\* with hours 0..23, minutes and seconds 0..59; tick(start, 0) = start,
\* tick(start, 86400) = start, tick(23:59:59, 1) = 00:00:00, and less than a second
\* of elapsed time does not advance the second.
C2_TickTime ==
    call.fn = "_tick_time" =>
        LET start == call.args[1]
            e     == call.args[2]
            r     == call.result
        IN  /\ Len(r) = 6
            /\ AllDigits(r)
            /\ Num2(r, 1) <= 23
            /\ Num2(r, 3) <= 59
            /\ Num2(r, 5) <= 59
            /\ SecondsOfDay(r) = (SecondsOfDay(start) + (e \div MsPerSec)) % 86400
            /\ (e = 0 => r = start)
            /\ (e = 86400 * MsPerSec => r = start)
            /\ (start = T("2", "3", "5", "9", "5", "9") /\ e = MsPerSec
                    => r = T("0", "0", "0", "0", "0", "0"))
            /\ (e < MsPerSec => r = start)

\* 23:59:59 ticked by one second and a further whole day gave 00:00:00
C2_Witness ==
    /\ call.fn = "_tick_time"
    /\ call.args = <<T("2", "3", "5", "9", "5", "9"), (86400 * MsPerSec) + MsPerSec>>
    /\ call.result = T("0", "0", "0", "0", "0", "0")

\* C5: for an in-range latitude (longitude) v, _to_nmea_latlon returns hemisphere
\* N (E) iff v >= 0, else S (W), and a text of exactly 2 (3) degree digits spelling
\* floor(|v|), followed by the minutes (|v| - degrees) * 60 as MM.MMMM: two digits,
\* a point, four digits, the nearest such number to the minutes.
C5_LatLonFormat ==
    call.fn = "_to_nmea_latlon" =>
        LET v      == call.args[1]
            is_lat == call.args[2]
            text   == call.result[1]
            hemi   == call.result[2]
            dl     == IF is_lat THEN 2 ELSE 3
            deg    == SubSeq(text, 1, dl)
            min    == SubSeq(text, dl + 1, Len(text))
            shown  == DigitsVal(SubSeq(min, 1, 2) \o SubSeq(min, 4, 7))
            exact  == (Abs(v) % DegUnit) * 60
        IN  /\ hemi = (IF is_lat THEN (IF v >= 0 THEN "N" ELSE "S")
                                 ELSE (IF v >= 0 THEN "E" ELSE "W"))
            /\ Len(text) = dl + 7
            /\ AllDigits(deg)
            /\ DigitsVal(deg) = Abs(v) \div DegUnit
            /\ AllDigits(SubSeq(min, 1, 2))
            /\ min[3] = "."
            /\ AllDigits(SubSeq(min, 4, 7))
            /\ 2 * Abs((shown * (DegUnit \div 10000)) - exact) <= DegUnit \div 10000

\* the repository's longitude gives 12336.6362 W; a longitude under 10 degrees west
\* gives three degree digits
C5_Witness ==
    /\ call.fn = "_to_nmea_latlon"
    /\ \/ /\ call.args = <<-1236106030, FALSE>>
          /\ call.result = <<<<"1", "2", "3", "3", "6", ".", "6", "3", "6", "2">>, "W">>
       \/ /\ call.args = <<-96106030, FALSE>>
          /\ call.result = <<<<"0", "0", "9", "3", "6", ".", "6", "3", "6", "2">>, "W">>

\* the same characters, each as many times
SameChars(p, q) ==
    /\ Len(p) = Len(q)
    /\ \A c \in PayloadChars :
        Cardinality({i \in 1..Len(p) : p[i] = c}) = Cardinality({i \in 1..Len(q) : q[i] = c})

AB == <<"A", "B">>

BA == <<"B", "A">>

\* C8 as stated: _checksum is order-sensitive, checksum("AB") differs from
\* checksum("BA").
C8_OrderSensitive ==
    (call.fn = "_checksum" /\ call.args = <<AB, BA>>) => call.result[1] # call.result[2]

\* C8 as amended: _checksum does not depend on the order of the payload's
\* characters: two payloads made of the same characters have the same checksum, so
\* checksum("AB") = checksum("BA"); the result is two uppercase hex digits spelling
\* the XOR of the character codes, and checksum("") is "00".
C8_OrderInsensitive ==
    call.fn = "_checksum" =>
        LET p == call.args[1]
            q == call.args[2]
            r == call.result[1]
        IN  /\ SameChars(p, q) => call.result[1] = call.result[2]
            /\ Len(r) = 2
            /\ IsHexDigit(r[1])
            /\ IsHexDigit(r[2])
            /\ (16 * HexVal(r[1])) + HexVal(r[2]) = XorOfChars(p)
            /\ (p = <<>> => r = <<"0", "0">>)

\* _checksum was applied to "AB" and to "BA", and gave 03 both times
C8_Witness ==
    /\ call.fn = "_checksum"
    /\ call.args = <<AB, BA>>
    /\ call.result = <<<<"0", "3">>, <<"0", "3">>>>

-----------------------------------------------------------------------------
(* Claims about the main loop *)

EvNames == [i \in 1..Len(events) |-> events[i].ev]

WriteEnds == {"written", "short", "raised"}

IsPrefix(s, t) == Len(s) <= Len(t) /\ \A i \in 1..Len(s) : s[i] = t[i]

\* the events of a cycle run in the order: enable, GGA write and its end, RMC write
\* and its end, disable
BracketOrder ==
    /\ Len(events) <= 6
    /\ \A i \in 1..Len(events) :
        CASE i = 1 -> events[i].ev = "te_on"
          [] i \in {2, 4} -> events[i].ev = "write"
          [] i \in {3, 5} -> events[i].ev \in WriteEnds
          [] i = 6 -> events[i].ev = "te_off"

\* C3: with a DE/RE pin configured, in every cycle transmit-enable is asserted, and
\* the turnaround delay has elapsed, before the GGA write begins; it stays asserted
\* through the GGA write and the RMC write, with no toggle between them; it is
\* deasserted only after the RMC write has ended and the trailing turnaround delay
\* has elapsed.
C3_EnableBracketsBothWrites ==
    cfg.DE_RE_PIN =>
        /\ BracketOrder
        /\ \A i \in 1..Len(events) :
            events[i].ev = "write" => events[i].t >= events[1].t + TurnaroundMs
        /\ Len(events) = 6 => events[6].t >= events[5].t + TurnaroundMs
        /\ de_re_value = (Len(events) \in 1..5)
        /\ pc \in {"write_gga", "write_rmc", "deassert"} => de_re_value

\* a cycle with the pin configured ran to its end: enable, two writes, disable
C3_Witness ==
    /\ cfg.DE_RE_PIN
    /\ pc = "sleep"
    /\ Len(events) = 6
    /\ events[6].ev = "te_off"
    /\ ~de_re_value

\* the sentence type: the five characters after the "$"
Talker(s) == SubSeq(s, 2, 6)

GPGGA == <<"G", "P", "G", "G", "A">>

GPRMC == <<"G", "P", "R", "M", "C">>

\* the write events of the cycle, in order
WriteEvents == SelectSeq(events, LAMBDA e : e.ev # "te_on" /\ e.ev # "te_off")

C6_InvalidConfigNeverWrites == ~ConfigValid(cfg) => wire = <<>>

\* a write has failed in the current cycle
WriteFailed == \E i \in 1..Len(events) : events[i].ev \in {"short", "raised"}

\* C7 as stated: once transmit-enable was asserted and a write failed, the signal
\* is deasserted afterwards: the loop never rests (sleeping between cycles, or
\* ended) with a failed write and transmit-enable still asserted.
C7_ReleasedAfterFailedWrite ==
    (cfg.DE_RE_PIN /\ WriteFailed /\ pc \in {"sleep", "crashed"}) => ~de_re_value

\* whole days by which the ticking time of the current cycle has wrapped
Wraps ==
    (SecondsOfDay(cfg.START_TIME_HHMMSS) + ((now - start_time) \div MsPerSec)) \div 86400

\* C9: the date field of every RMC sentence written equals the configured
\* START_DATE_DDMMYY, also in the cycles whose time of day has wrapped past
\* 23:59:59 once or several times.
C9_DateHeldConstant ==
    \A i \in 1..Len(wire) :
        Talker(wire[i]) = GPRMC => Field(PayloadOf(wire[i]), 10) = cfg.START_DATE_DDMMYY

\* an RMC sentence was written in a cycle whose time of day had wrapped twice
C9_Witness ==
    /\ pc = "deassert"
    /\ WellFormed6(cfg.START_TIME_HHMMSS)
    /\ Wraps >= 2
    /\ SecondsOfDay(utc_time) < SecondsOfDay(cfg.START_TIME_HHMMSS)
    /\ Talker(wire[Len(wire)]) = GPRMC
    /\ Field(PayloadOf(wire[Len(wire)]), 10) = cfg.START_DATE_DDMMYY

\* C10: the clock is read once per cycle: the GGA and the RMC sentence of a cycle
\* carry the same HHMMSS.00 time field, that of the cycle's reading, and the same
\* latitude and longitude fields, whatever time passes during the writes and the
\* delays.
C10_OneClockReadingPerCycle ==
    \A k \in 1..(Len(wire) \div 2) :
        LET g == PayloadOf(wire[(2 * k) - 1])
            r == PayloadOf(wire[2 * k])
        IN  /\ Field(g, 2) = Field(r, 2)
            /\ k = cycles => Field(r, 2) = utc_time \o <<".", "0", "0">>
            /\ Field(g, 3) = Field(r, 4)
            /\ Field(g, 4) = Field(r, 5)
            /\ Field(g, 5) = Field(r, 6)
            /\ Field(g, 6) = Field(r, 7)

\* both sentences of a cycle are written, and the clock has passed a second
\* boundary since the cycle's reading
C10_Witness ==
    /\ pc = "deassert"
    /\ Len(wire) = 2 * cycles
    /\ (clock - start_time) \div MsPerSec > (now - start_time) \div MsPerSec
    /\ Field(PayloadOf(wire[Len(wire)]), 2) = utc_time \o <<".", "0", "0">>

=============================================================================
